---------------------------- MODULE Spec2Model ----------------------------
(***************************************************************************)
(* A model of services/geminiService.ts: the credential resolver, the two  *)
(* tolerant JSON parsers, the vocabulary sanitizer, the four task          *)
(* functions and the chat session.                                         *)
(*                                                                         *)
(* JavaScript values are tagged records.  A string is a sequence of        *)
(* one-character strings, so that trim, indexOf, substring and JSON.parse  *)
(* are computed character by character.  A character outside ASCII is      *)
(* written by its code point ("u672A"), and so is the backtick ("u0060").  *)
(* An object keeps its keys in order (field k) beside their values         *)
(* (field v).  A call that can throw returns a completion:                 *)
(* [thrown |-> FALSE, val |-> v] or [thrown |-> TRUE, val |-> error].      *)
(***************************************************************************)
EXTENDS Naturals, Integers, Sequences, FiniteSets, TLC

VARIABLES
    items,      \* the argument of a call of sanitizeVocabularyItems
    sanitized,  \* Pending, or the completion of that call
    resanitized, \* Pending, or the completion of the call on what that call returned
    rawText,    \* the argument of a call of a parser
    arrayOut,   \* Pending, or the completion of extractJsonArray(rawText)
    objectOut,  \* Pending, or the completion of extractJsonObject(rawText)
    window,     \* the keys injected at run time: window.DEEPSEEK_API_KEY, .API_KEY
    processEnv, \* the keys of the build: process.env.DEEPSEEK_API_KEY, .API_KEY
    task,       \* the task function invoked and its provider
    pc,         \* where the invocation stands: idle, fetch, json, generate, done
    request,    \* the request the invocation has in flight
    log,        \* the calls the invocation has made, in order
    outcome,    \* Pending, or the completion of the invocation
    provider,   \* per chat session: its kind (none until created) and closure
    history,    \* per chat session: the history array of the deepseek closure
    calls       \* the sendMessage calls issued so far, in order of issue

sanVars == <<items, sanitized, resanitized>>
parseVars == <<rawText, arrayOut, objectOut>>
envVars == <<window, processEnv>>
taskVars == <<task, pc, request, log, outcome>>
chatVars == <<provider, history, calls>>
vars == <<sanVars, parseVars, envVars, taskVars, chatVars>>

Pending == [pending |-> TRUE]

(***************************************************************************)
(* JavaScript values                                                       *)
(***************************************************************************)
Undef == [t |-> "undefined"]
Null == [t |-> "null"]
Str(s) == [t |-> "string", s |-> s]
Num(n) == [t |-> "number", n |-> n]
Bool(b) == [t |-> "boolean", b |-> b]
\* An array: its elements (a), and the named properties set on it (k, v).
Arr(a) == [t |-> "array", a |-> a, k |-> <<>>, v |-> <<>>]
Obj(k, v) == [t |-> "object", k |-> k, v |-> v]

Ret(v) == [thrown |-> FALSE, val |-> v]
Throw(e) == [thrown |-> TRUE, val |-> e]
TypeError == [t |-> "error", name |-> "TypeError"]
SyntaxError == [t |-> "error", name |-> "SyntaxError"]

\* ToBoolean: undefined, null, false, 0 and "" are falsy, all else truthy.
Truthy(x) ==
    CASE x.t = "undefined" -> FALSE
      [] x.t = "null" -> FALSE
      [] x.t = "boolean" -> x.b
      [] x.t = "number" -> x.n # 0
      [] x.t = "string" -> x.s # <<>>
      [] OTHER -> TRUE

\* a || b
Or(a, b) == IF Truthy(a) THEN a ELSE b

IsArray(x) == x.t = "array"

\* x[key] for a string key that is no array index and no built-in member:
\* an own property of an object or array, undefined on any other value.
Get(x, key) ==
    IF x.t \in {"object", "array"} /\ \E i \in 1..Len(x.k) : x.k[i] = key
    THEN x.v[CHOOSE i \in 1..Len(x.k) : x.k[i] = key]
    ELSE Undef

WhiteSpace == {" ", "\n", "\t", "\r"}

\* String.prototype.trim: from the first to the last character that is no
\* white space.
Trim(s) ==
    LET first == {i \in 1..Len(s) :
                     s[i] \notin WhiteSpace
                     /\ \A j \in 1..(i - 1) : s[j] \in WhiteSpace}
        last == {i \in 1..Len(s) :
                    s[i] \notin WhiteSpace
                    /\ \A j \in (i + 1)..Len(s) : s[j] \in WhiteSpace}
    IN  IF first = {} THEN <<>>
        ELSE SubSeq(s, CHOOSE i \in first : TRUE, CHOOSE i \in last : TRUE)

(***************************************************************************)
(* Property names and placeholder texts of the sanitizer                   *)
(***************************************************************************)
kWord == <<"w", "o", "r", "d">>
kTerm == <<"t", "e", "r", "m">>
kCharacter == <<"c", "h", "a", "r", "a", "c", "t", "e", "r">>
kZi == <<"z", "i">>
kText == <<"t", "e", "x", "t">>
kDefinition == <<"d", "e", "f", "i", "n", "i", "t", "i", "o", "n">>
kMeaning == <<"m", "e", "a", "n", "i", "n", "g">>
kExplanation == <<"e", "x", "p", "l", "a", "n", "a", "t", "i", "o", "n">>
kChineseTranslation ==
    <<"c", "h", "i", "n", "e", "s", "e", "T", "r", "a", "n", "s", "l", "a",
      "t", "i", "o", "n">>
kExampleSentence ==
    <<"e", "x", "a", "m", "p", "l", "e", "S", "e", "n", "t", "e", "n", "c",
      "e">>
kExample == <<"e", "x", "a", "m", "p", "l", "e">>
kExamples == <<"e", "x", "a", "m", "p", "l", "e", "s">>
kSentence == <<"s", "e", "n", "t", "e", "n", "c", "e">>
kUsage == <<"u", "s", "a", "g", "e">>
kPhonetic == <<"p", "h", "o", "n", "e", "t", "i", "c">>
kJyutping == <<"j", "y", "u", "t", "p", "i", "n", "g">>
kPinyin == <<"p", "i", "n", "y", "i", "n">>
kMnemonic == <<"m", "n", "e", "m", "o", "n", "i", "c">>
kContext == <<"c", "o", "n", "t", "e", "x", "t">>
kTags == <<"t", "a", "g", "s">>
kImage == <<"i", "m", "a", "g", "e">>

WordPlaceholder == Str(<<"u672A", "u547D", "u540D">>)
DefinitionPlaceholder ==
    Str(<<"A", "I", " ", "u672A", "u63D0", "u4F9B", "u89E3", "u91CB">>)
ExamplePlaceholder ==
    Str(<<"u66AB", "u7121", "u4F8B", "u53E5", " ", "(", "A", "I", " ",
          "u672A", "u63D0", "u4F9B", ")">>)
MnemonicPlaceholder ==
    Str(<<"u66AB", "u7121", "u806F", "u60F3", "u8A18", "u61B6">>)

(***************************************************************************)
(* The sanitizer                                                           *)
(***************************************************************************)
\* x && x.trim() !== "": false on a falsy x, a TypeError on a truthy x that
\* is no string (it has no trim method), else whether x is not blank.
NotBlank(x) ==
    IF ~Truthy(x) THEN Ret(FALSE)
    ELSE IF x.t # "string" THEN Throw(TypeError)
    ELSE Ret(Trim(x.s) # <<>>)

\* The chain of the word with its first two keys exchanged: term before
\* word.
WordOfTermFirst(item) ==
    Or(Get(item, kTerm),
       Or(Get(item, kWord),
          Or(Get(item, kCharacter),
             Or(Get(item, kZi), Or(Get(item, kText), WordPlaceholder)))))

\* const word = item.word || item.term || item.character || item.zi
\*              || item.text || placeholder
WordOf(item) ==
    Or(Get(item, kWord),
       Or(Get(item, kTerm),
          Or(Get(item, kCharacter),
             Or(Get(item, kZi), Or(Get(item, kText), WordPlaceholder)))))

DefinitionOfAlternateFirst(item) ==
    LET nb == NotBlank(Get(item, kDefinition))
    IN  IF nb.thrown THEN nb
        ELSE IF nb.val /\ ~Truthy(Get(item, kMeaning))
             THEN Ret(Get(item, kDefinition))
        ELSE Ret(Or(Get(item, kMeaning),
                    Or(Get(item, kExplanation),
                       Or(Get(item, kChineseTranslation),
                          DefinitionPlaceholder))))

DefinitionOf(item) ==
    LET nb == NotBlank(Get(item, kDefinition))
    IN  IF nb.thrown THEN nb
        ELSE IF nb.val THEN Ret(Get(item, kDefinition))
        ELSE Ret(Or(Get(item, kMeaning),
                    Or(Get(item, kExplanation),
                       Or(Get(item, kChineseTranslation),
                          DefinitionPlaceholder))))

ExampleSentenceOfLast(item) ==
    LET raw0 == Or(Get(item, kExampleSentence),
                   Or(Get(item, kExample),
                      Or(Get(item, kExamples),
                         Or(Get(item, kSentence),
                            Or(Get(item, kUsage), Str(<<>>))))))
        rawExample ==
            IF IsArray(raw0)
            THEN (IF Len(raw0.a) > 0 THEN raw0.a[Len(raw0.a)] ELSE Str(<<>>))
            ELSE raw0
    IN  IF Truthy(rawExample) /\ rawExample.t = "string"
           /\ Trim(rawExample.s) # <<>>
        THEN rawExample
        ELSE ExamplePlaceholder

ExampleSentenceOf(item) ==
    LET raw0 == Or(Get(item, kExampleSentence),
                   Or(Get(item, kExample),
                      Or(Get(item, kExamples),
                         Or(Get(item, kSentence),
                            Or(Get(item, kUsage), Str(<<>>))))))
        rawExample ==
            IF IsArray(raw0)
            THEN (IF Len(raw0.a) > 0 THEN raw0.a[1] ELSE Str(<<>>))
            ELSE raw0
    IN  IF Truthy(rawExample) /\ rawExample.t = "string"
           /\ Trim(rawExample.s) # <<>>
        THEN rawExample
        ELSE ExamplePlaceholder

MnemonicOf(item) ==
    LET nb == NotBlank(Get(item, kMnemonic))
    IN  IF nb.thrown THEN nb
        ELSE IF nb.val THEN Ret(Get(item, kMnemonic))
        ELSE Ret(MnemonicPlaceholder)

OutKeys ==
    <<kWord, kDefinition, kPhonetic, kChineseTranslation, kExampleSentence,
      kMnemonic, kContext, kTags, kImage>>

\* The callback of items.map: reading a property of null or undefined
\* throws; every other value is read like an object without the property.
SanitizeItem(item) ==
    IF item.t \in {"null", "undefined"} THEN Throw(TypeError)
    ELSE LET d == DefinitionOf(item)
             m == MnemonicOf(item)
         IN  IF d.thrown THEN d
             ELSE IF m.thrown THEN m
             ELSE Ret(Obj(OutKeys,
                          <<WordOf(item),
                            d.val,
                            Or(Get(item, kPhonetic),
                               Or(Get(item, kJyutping),
                                  Or(Get(item, kPinyin), Str(<<>>)))),
                            Or(Get(item, kChineseTranslation), Str(<<>>)),
                            ExampleSentenceOf(item),
                            m.val,
                            Or(Get(item, kContext), Str(<<>>)),
                            IF IsArray(Get(item, kTags))
                            THEN Get(item, kTags) ELSE Arr(<<>>),
                            Get(item, kImage)>>))

\* items.map(...): a TypeError when items is no array, and the first
\* callback that throws ends the call.
sanitizeVocabularyItems(xs) ==
    IF ~IsArray(xs) THEN Throw(TypeError)
    ELSE LET rs == [i \in 1..Len(xs.a) |-> SanitizeItem(xs.a[i])]
         IN  IF \E i \in 1..Len(rs) : rs[i].thrown
             THEN Throw(TypeError)
             ELSE Ret(Arr([i \in 1..Len(rs) |-> rs[i].val]))

(***************************************************************************)
(* Strings: replace, indexOf, lastIndexOf, substring                       *)
(***************************************************************************)
\* The least and the greatest of a non-empty set of numbers.
Min(S) == CHOOSE i \in S : \A j \in S : i <= j
Max(S) == CHOOSE i \in S : \A j \in S : j <= i

At(s, i) == IF i >= 1 /\ i <= Len(s) THEN s[i] ELSE "EOF"

StartsWithAt(s, i, pat) ==
    /\ i + Len(pat) - 1 <= Len(s)
    /\ \A j \in 1..Len(pat) : s[i + j - 1] = pat[j]

\* s.replace(/pat/g, ''): every occurrence, left to right, not overlapping.
RECURSIVE RemoveAll(_, _)
RemoveAll(s, pat) ==
    LET hits == {i \in 1..Len(s) : s[i] = pat[1] /\ StartsWithAt(s, i, pat)}
    IN  IF hits = {} THEN s
        ELSE SubSeq(s, 1, Min(hits) - 1)
             \o RemoveAll(SubSeq(s, Min(hits) + Len(pat), Len(s)), pat)

\* indexOf and lastIndexOf of one character, counted from 1; 0 stands for
\* JavaScript's -1.
IndexOf(s, c) ==
    LET hits == {i \in 1..Len(s) : s[i] = c}
    IN  IF hits = {} THEN 0 ELSE Min(hits)

LastIndexOf(s, c) ==
    LET hits == {i \in 1..Len(s) : s[i] = c}
    IN  IF hits = {} THEN 0 ELSE Max(hits)

FenceJson == <<"u0060", "u0060", "u0060", "j", "s", "o", "n">>
Fence == <<"u0060", "u0060", "u0060">>

\* text.replace(/FENCEjson/g, '').replace(/FENCE/g, '').trim(), FENCE being
\* three backticks (u0060)
CleanText(s) == Trim(RemoveAll(RemoveAll(s, FenceJson), Fence))

\* The narrowing of both parsers: from the first open to the last close
\* when both occur (substring swaps its arguments when the close comes
\* first), else the whole text.
Narrow(s, open, close) ==
    LET b == IndexOf(s, open)
        e == LastIndexOf(s, close)
    IN  IF b # 0 /\ e # 0
        THEN (IF b <= e THEN SubSeq(s, b, e) ELSE SubSeq(s, e + 1, b - 1))
        ELSE s

(***************************************************************************)
(* JSON.parse, on the characters the model's texts are made of: white      *)
(* space, null, true, false, integers, strings without escape sequences,   *)
(* arrays and objects.  A parse step returns [ok, val, pos], pos being     *)
(* the index after the value.                                              *)
(***************************************************************************)
JsonWhiteSpace == {" ", "\n", "\t", "\r"}
Digits == <<"0", "1", "2", "3", "4", "5", "6", "7", "8", "9">>
IsDigit(c) == \E d \in 1..10 : Digits[d] = c
DigitVal(c) == (CHOOSE d \in 1..10 : Digits[d] = c) - 1

NoParse == [ok |-> FALSE, val |-> Undef, pos |-> 0]
Parsed(v, p) == [ok |-> TRUE, val |-> v, pos |-> p]

\* The first index from i on that holds no white space (Len(s) + 1 when
\* there is none).
SkipWs(s, i) ==
    IF At(s, i) \notin JsonWhiteSpace THEN i
    ELSE Min({j \in i..(Len(s) + 1) :
                 At(s, j) \notin JsonWhiteSpace
                 /\ \A h \in i..(j - 1) : s[h] \in JsonWhiteSpace})

\* The first index from i on that holds no digit.
DigitsEnd(s, i) ==
    IF ~IsDigit(At(s, i)) THEN i
    ELSE Min({j \in i..(Len(s) + 1) :
                 ~IsDigit(At(s, j)) /\ \A h \in i..(j - 1) : IsDigit(s[h])})

RECURSIVE NatOf(_)
NatOf(ds) ==
    IF ds = <<>> THEN 0
    ELSE 10 * NatOf(SubSeq(ds, 1, Len(ds) - 1)) + DigitVal(ds[Len(ds)])

\* -?(0|[1-9][0-9]*), and no fraction or exponent after it
ParseNumber(s, i) ==
    LET neg == At(s, i) = "-"
        b == IF neg THEN i + 1 ELSE i
        e == DigitsEnd(s, b)
    IN  IF e = b \/ (At(s, b) = "0" /\ e > b + 1)
           \/ At(s, e) \in {".", "e", "E"}
        THEN NoParse
        ELSE Parsed(Num(IF neg THEN 0 - NatOf(SubSeq(s, b, e - 1))
                        ELSE NatOf(SubSeq(s, b, e - 1))), e)

\* A string from the quote at i to the next quote; a control character or
\* a backslash in between is not accepted.
ParseString(s, i) ==
    LET rest == SubSeq(s, i + 1, Len(s))
        q == IndexOf(rest, "\"")
    IN  IF At(s, i) # "\"" \/ q = 0 THEN NoParse
        ELSE IF \E j \in 1..(q - 1) : rest[j] \in {"\n", "\t", "\r", "\\"}
        THEN NoParse
        ELSE Parsed(Str(SubSeq(rest, 1, q - 1)), i + q + 1)

ParseLiteral(s, i) ==
    CASE StartsWithAt(s, i, <<"n", "u", "l", "l">>) -> Parsed(Null, i + 4)
      [] StartsWithAt(s, i, <<"t", "r", "u", "e">>) ->
             Parsed(Bool(TRUE), i + 4)
      [] StartsWithAt(s, i, <<"f", "a", "l", "s", "e">>) ->
             Parsed(Bool(FALSE), i + 5)
      [] OTHER -> NoParse

\* A property name that is an array index ("0", "7", "12"): Object.keys
\* lists these first, in ascending order, before the other names.
IsIndexKey(k) ==
    /\ k # <<>>
    /\ \A j \in 1..Len(k) : IsDigit(k[j])
    /\ (Len(k) > 1 => k[1] # "0")

\* obj[key] = val on the pairs collected so far: a repeated name keeps its
\* place and takes the later value.
SetMember(ks, vs, key, val) ==
    IF \E j \in 1..Len(ks) : ks[j] = key
    THEN [k |-> ks,
          v |-> [j \in 1..Len(vs) |-> IF ks[j] = key THEN val ELSE vs[j]]]
    ELSE [k |-> Append(ks, key), v |-> Append(vs, val)]

\* The pairs in own-property order: index names ascending, then the rest
\* in insertion order.
RECURSIVE SortIndexKeys(_)
SortIndexKeys(js) ==
    IF js = {} THEN <<>>
    ELSE LET m == CHOOSE j \in js :
                      \A h \in js : NatOf(j[1]) <= NatOf(h[1])
         IN  <<m>> \o SortIndexKeys(js \ {m})

OwnPropertyOrder(ks, vs) ==
    LET idx == {<<ks[j], vs[j]>> : j \in {h \in 1..Len(ks) : IsIndexKey(ks[h])}}
        sorted == SortIndexKeys(idx)
        others == SelectSeq([j \in 1..Len(ks) |-> <<ks[j], vs[j]>>],
                            LAMBDA p : ~IsIndexKey(p[1]))
        all == sorted \o others
    IN  Obj([j \in 1..Len(all) |-> all[j][1]],
            [j \in 1..Len(all) |-> all[j][2]])

RECURSIVE ParseValue(_, _)
RECURSIVE ParseElements(_, _, _)
RECURSIVE ParseMembers(_, _, _, _)

\* i is at the first character of a value.
ParseValue(s, i) ==
    LET c == At(s, i)
    IN  CASE c = "[" ->
                 (IF At(s, SkipWs(s, i + 1)) = "]"
                  THEN Parsed(Arr(<<>>), SkipWs(s, i + 1) + 1)
                  ELSE ParseElements(s, SkipWs(s, i + 1), <<>>))
          [] c = "{" ->
                 (IF At(s, SkipWs(s, i + 1)) = "}"
                  THEN Parsed(Obj(<<>>, <<>>), SkipWs(s, i + 1) + 1)
                  ELSE ParseMembers(s, SkipWs(s, i + 1), <<>>, <<>>))
          [] c = "\"" -> ParseString(s, i)
          [] c = "-" \/ IsDigit(c) -> ParseNumber(s, i)
          [] OTHER -> ParseLiteral(s, i)

\* After the elements acc and the element els, at j: a comma and the next
\* element, or the closing bracket.
ElementsAfter(s, j, els) ==
    IF At(s, j) = "," THEN ParseElements(s, SkipWs(s, j + 1), els)
    ELSE IF At(s, j) = "]" THEN Parsed(Arr(els), j + 1)
    ELSE NoParse

\* The element r has been read after the elements acc.
ElementRead(s, r, acc) ==
    IF ~r.ok THEN NoParse
    ELSE ElementsAfter(s, SkipWs(s, r.pos), Append(acc, r.val))

\* i is where the next element of an array is expected.
ParseElements(s, i, acc) == ElementRead(s, ParseValue(s, i), acc)

\* After the members kv, at j: a comma and the next member, or the closing
\* brace.
MembersAfter(s, j, kv) ==
    IF At(s, j) = "," THEN ParseMembers(s, SkipWs(s, j + 1), kv.k, kv.v)
    ELSE IF At(s, j) = "}" THEN Parsed(OwnPropertyOrder(kv.k, kv.v), j + 1)
    ELSE NoParse

\* The value r of the member called name has been read.
MemberRead(s, name, r, ks, vs) ==
    IF ~r.ok THEN NoParse
    ELSE MembersAfter(s, SkipWs(s, r.pos), SetMember(ks, vs, name, r.val))

\* The name key of a member has been read; c is where its colon must be.
MemberNamed(s, key, c, ks, vs) ==
    IF ~key.ok \/ At(s, c) # ":" THEN NoParse
    ELSE MemberRead(s, key.val.s, ParseValue(s, SkipWs(s, c + 1)), ks, vs)

MemberColon(s, key, ks, vs) ==
    MemberNamed(s, key, SkipWs(s, key.pos), ks, vs)

\* i is where the next member's name is expected.
ParseMembers(s, i, ks, vs) == MemberColon(s, ParseString(s, i), ks, vs)

\* One value, white space around it, nothing else.
WholeText(s, r) ==
    IF r.ok /\ SkipWs(s, r.pos) = Len(s) + 1
    THEN Ret(r.val)
    ELSE Throw(SyntaxError)

\* JSON.parse(s)
JSONParse(s) == WholeText(s, ParseValue(s, SkipWs(s, 1)))

(***************************************************************************)
(* The two parsers                                                         *)
(***************************************************************************)
kItems == <<"i", "t", "e", "m", "s">>
QuotedItems == <<"\"">> \o kItems \o <<"\"">>

\* Where a match of /\{\s*"items"\s*:\s*\[.*\]\s*\}/s that starts at i has
\* its opening bracket, 0 when none starts at i.
ItemsOpenAt(s, i) ==
    LET p1 == SkipWs(s, i + 1)
        p2 == SkipWs(s, p1 + Len(QuotedItems))
        p3 == SkipWs(s, p2 + 1)
    IN  IF /\ At(s, i) = "{"
           /\ StartsWithAt(s, p1, QuotedItems)
           /\ At(s, p2) = ":"
           /\ At(s, p3) = "["
        THEN p3
        ELSE 0

\* The closing brackets a match opened at p can end with: a "]" followed
\* by white space and "}".
ItemsCloses(s, p) ==
    {j \in (p + 1)..Len(s) : s[j] = "]" /\ At(s, SkipWs(s, j + 1)) = "}"}

\* text.match(...): the leftmost match, its .* taking as much as it can;
\* <<>> stands for null (no match: a match is never empty).
MatchItems(s) ==
    LET starts == {i \in 1..Len(s) :
                       s[i] = "{" /\ ItemsOpenAt(s, i) # 0
                       /\ ItemsCloses(s, ItemsOpenAt(s, i)) # {}}
    IN  IF starts = {} THEN <<>>
        ELSE LET i == Min(starts)
                 j == Max(ItemsCloses(s, ItemsOpenAt(s, i)))
             IN  SubSeq(s, i, SkipWs(s, j + 1))

\* for (const key of Object.keys(parsed)) if (Array.isArray(parsed[key]))
\*     return parsed[key];
FirstArrayValue(o) ==
    LET hits == {i \in 1..Len(o.k) : IsArray(o.v[i])}
    IN  IF hits = {} THEN Undef ELSE o.v[Min(hits)]

\* What the try block of extractJsonArray returns for the parsed value p:
\* the first array-valued property of an object, an object without one
\* wrapped in an array, an array as it is, [] for anything else.
ArrayOf(p) ==
    IF p.thrown THEN p
    ELSE IF p.val.t = "object" /\ FirstArrayValue(p.val) # Undef
    THEN Ret(FirstArrayValue(p.val))
    ELSE IF p.val.t = "object" THEN Ret(Arr(<<p.val>>))
    ELSE IF IsArray(p.val) THEN p
    ELSE Ret(Arr(<<>>))

\* The try block of extractJsonArray.  text.replace throws a TypeError on
\* a text that is no string.
ArrayTry(text) ==
    IF text.t # "string" THEN Throw(TypeError)
    ELSE ArrayOf(JSONParse(Narrow(CleanText(text.s), "[", "]")))

\* try { return JSON.parse(matchObj[0]).items; } catch (e3) {}  return [];
ItemsOf(p) ==
    IF p.thrown THEN Ret(Arr(<<>>)) ELSE Ret(Get(p.val, kItems))

\* if (matchObj) ...; return [];
ItemsOfMatch(m) ==
    IF m = <<>> THEN Ret(Arr(<<>>)) ELSE ItemsOf(JSONParse(m))

\* The catch block of extractJsonArray.  text.match throws a TypeError on
\* a text that is no string, and nothing catches it.
ArrayCatch(text) ==
    IF text.t # "string" THEN Throw(TypeError)
    ELSE ItemsOfMatch(MatchItems(text.s))

\* try { ... } catch (e) { ... }
TryCatch(r, caught) == IF r.thrown THEN caught ELSE r

extractJsonArray(text) == TryCatch(ArrayTry(text), ArrayCatch(text))

\* What the try block of extractJsonObject returns for the parsed value p:
\* the first element of an array ({} for an empty one), an object or null
\* (typeof null is 'object' too) as it is, {} for anything else.
ObjectOf(p) ==
    IF p.thrown THEN p
    ELSE IF IsArray(p.val)
    THEN Ret(IF Len(p.val.a) > 0 THEN p.val.a[1] ELSE Obj(<<>>, <<>>))
    ELSE IF p.val.t \in {"object", "null"} THEN p
    ELSE Ret(Obj(<<>>, <<>>))

\* The try block of extractJsonObject.
ObjectTry(text) ==
    IF text.t # "string" THEN Throw(TypeError)
    ELSE ObjectOf(JSONParse(Narrow(CleanText(text.s), "{", "}")))

extractJsonObject(text) == TryCatch(ObjectTry(text), Ret(Obj(<<>>, <<>>)))

(***************************************************************************)
(* What a backend can answer with: JSON texts of values, bare or wrapped   *)
(* in code fences and prose, and texts that are no JSON.                   *)
(***************************************************************************)
RECURSIVE Json(_)
RECURSIVE JoinJson(_, _)
JoinJson(vs, ks) ==
    IF vs = <<>> THEN <<>>
    ELSE (IF ks = <<>> THEN <<>>
          ELSE <<"\"">> \o Head(ks) \o <<"\"", ":">>)
         \o Json(Head(vs))
         \o (IF Len(vs) > 1 THEN <<",">> ELSE <<>>)
         \o JoinJson(Tail(vs), IF ks = <<>> THEN <<>> ELSE Tail(ks))

RECURSIVE DigitsOf(_)
DigitsOf(n) ==
    IF n < 10 THEN <<Digits[n + 1]>>
    ELSE DigitsOf(n \div 10) \o <<Digits[(n % 10) + 1]>>

\* JSON.stringify, compact.
Json(v) ==
    CASE v.t = "null" -> <<"n", "u", "l", "l">>
      [] v.t = "boolean" ->
             (IF v.b THEN <<"t", "r", "u", "e">>
              ELSE <<"f", "a", "l", "s", "e">>)
      [] v.t = "number" ->
             (IF v.n < 0 THEN <<"-">> \o DigitsOf(0 - v.n) ELSE DigitsOf(v.n))
      [] v.t = "string" -> <<"\"">> \o v.s \o <<"\"">>
      [] v.t = "array" -> <<"[">> \o JoinJson(v.a, <<>>) \o <<"]">>
      [] v.t = "object" -> <<"{">> \o JoinJson(v.v, v.k) \o <<"}">>

(***************************************************************************)
(* Inputs of the sanitizer: raw items with up to two of the names the      *)
(* sanitizer reads, over values of every JSON type, and values that are    *)
(* no mapping at all.                                                      *)
(***************************************************************************)
MaxItems == 2

X == Str(<<"x">>)
Y == Str(<<"y">>)
Blank == Str(<<" ">>)
Padded == Str(<<" ", "z", " ">>)
Empty == Str(<<>>)

FieldVals ==
    {Null, Empty, Blank, X, Y, Padded, Num(0), Num(5), Bool(TRUE),
     Arr(<<>>), Arr(<<Str(<<"a">>), Str(<<"b">>)>>), Arr(<<Num(5)>>),
     Arr(<<Str(<<" ">>), Str(<<"x">>)>>), Obj(<<>>, <<>>)}

WordChain == <<kWord, kTerm, kCharacter, kZi, kText>>
DefinitionChain == <<kDefinition, kMeaning, kExplanation, kChineseTranslation>>
ExampleChain == <<kExampleSentence, kExample, kExamples, kSentence, kUsage>>
PhoneticChain == <<kPhonetic, kJyutping, kPinyin>>
OtherKeys == <<kMnemonic, kContext, kTags, kImage>>

Range(f) == {f[i] : i \in DOMAIN f}

AllKeys ==
    Range(WordChain) \cup Range(DefinitionChain) \cup Range(ExampleChain)
    \cup Range(PhoneticChain) \cup Range(OtherKeys)

PairsOf(chain) ==
    {<<chain[i], chain[j]>> : i \in DOMAIN chain, j \in DOMAIN chain} \ 
    {<<chain[i], chain[i]>> : i \in DOMAIN chain}

KeyPairs ==
    PairsOf(WordChain) \cup PairsOf(DefinitionChain) \cup PairsOf(ExampleChain)
    \cup PairsOf(PhoneticChain)
    \cup {<<kDefinition, kMnemonic>>, <<kWord, kDefinition>>,
          <<kTags, kImage>>}

GoodItem ==
    Obj(<<kWord, kPhonetic, kDefinition, kMnemonic, kExampleSentence,
          kContext, kTags>>,
        <<X, Y, X, Y, X, Y, Arr(<<Str(<<"a">>)>>)>>)

ItemPool ==
    {Obj(<<>>, <<>>), GoodItem}
    \cup {Obj(<<k>>, <<v>>) : k \in AllKeys, v \in FieldVals}
    \cup {Obj(p, <<v, w>>) : p \in KeyPairs, v \in FieldVals, w \in FieldVals}

NonMappings == {Null, Num(5), X, Arr(<<>>)}

FewItems == {GoodItem, Obj(<<kTerm>>, <<X>>)}

RECURSIVE SeqsOf(_, _)
SeqsOf(S, n) ==
    IF n = 0 THEN {<<>>}
    ELSE {Append(q, e) : q \in SeqsOf(S, n - 1), e \in S}

\* An array of up to MaxItems elements: any item last, after a few others.
IsItemArray(xs) ==
    \/ xs = Arr(<<>>)
    \/ \E n \in 1..MaxItems :
           \E q \in SeqsOf(FewItems, n - 1), e \in ItemPool \cup NonMappings :
               xs = Arr(Append(q, e))

Sanitize ==
    /\ sanitized = Pending
    /\ sanitized' = sanitizeVocabularyItems(items)
    /\ UNCHANGED <<items, resanitized, parseVars, envVars, taskVars, chatVars>>

\* The array a call returned is passed to sanitizeVocabularyItems again.
SanitizeAgain ==
    /\ sanitized # Pending /\ ~sanitized.thrown
    /\ resanitized = Pending
    /\ resanitized' = sanitizeVocabularyItems(sanitized.val)
    /\ UNCHANGED <<items, sanitized, parseVars, envVars, taskVars, chatVars>>

(***************************************************************************)
(* Inputs of the parsers: what a backend can put in a response             *)
(***************************************************************************)
kTranslation ==
    <<"t", "r", "a", "n", "s", "l", "a", "t", "i", "o", "n">>
kVocabulary == <<"v", "o", "c", "a", "b", "u", "l", "a", "r", "y">>
kKeyVocabulary ==
    <<"k", "e", "y", "V", "o", "c", "a", "b", "u", "l", "a", "r", "y">>
kCorrection == <<"c", "o", "r", "r", "e", "c", "t", "i", "o", "n">>

WordX == Obj(<<kWord>>, <<X>>)
TermY == Obj(<<kTerm, kDefinition, kMnemonic>>, <<Y, Empty, X>>)
TranslationT == Obj(<<kTranslation>>, <<Str(<<"t">>)>>)

JsonVals ==
    { Arr(<<>>), Arr(<<WordX>>), Arr(<<WordX, TermY>>),
      Arr(<<Null>>), Arr(<<Num(5)>>), Arr(<<Arr(<<WordX>>)>>),
      Arr(<<Obj(<<kDefinition>>, <<Num(5)>>)>>),
      Arr(<<Str(<<"a", "]", "b">>)>>),
      Arr(<<TranslationT>>), Arr(<<TranslationT, WordX>>),
      Obj(<<>>, <<>>), WordX, TranslationT,
      Obj(<<kItems>>, <<Arr(<<WordX>>)>>),
      Obj(<<kItems>>, <<Arr(<<TermY>>)>>),
      Obj(<<kItems>>, <<Arr(<<>>)>>),
      Obj(<<kItems>>, <<X>>),
      Obj(<<kWord, kTags>>, <<X, Arr(<<Str(<<"a">>)>>)>>),
      Obj(<<<<"b">>, <<"1">>>>, <<Arr(<<Num(1)>>), Arr(<<Num(2)>>)>>),
      Obj(<<kVocabulary>>, <<Arr(<<WordX>>)>>),
      Obj(<<kTranslation, kVocabulary>>, <<Str(<<"t">>), Arr(<<TermY>>)>>),
      Obj(<<kTranslation, kVocabulary>>, <<Str(<<"t">>), X>>),
      Obj(<<kTranslation, kVocabulary>>, <<Str(<<"t">>), Null>>),
      Obj(<<kTranslation, kVocabulary>>,
          <<Str(<<"t">>), Arr(<<Obj(<<kMnemonic>>, <<Num(5)>>)>>)>>),
      Obj(<<kCorrection, kKeyVocabulary>>, <<Str(<<"c">>), Arr(<<WordX>>)>>),
      Obj(<<kCorrection, kKeyVocabulary>>, <<Str(<<"c">>), Arr(<<Null>>)>>),
      Obj(<<kTranslation>>, <<Str(<<"a", "}", "b">>)>>),
      Null, Num(5), X, Bool(TRUE) }

Prose == <<"H", "e", "r", "e", ":", " ">>
Note == <<"[", "n", "]">>
Brace == <<"{", "n", "}">>

\* The ways a model wraps its JSON: bare, padded, in a code fence, in
\* prose, in prose with brackets or braces of its own.
Wrappings(j) ==
    { j,
      <<" ">> \o j \o <<"\n">>,
      FenceJson \o <<"\n">> \o j \o <<"\n">> \o Fence,
      Fence \o j \o Fence,
      Prose \o j \o <<" ", "o", "k">>,
      Prose \o FenceJson \o <<"\n">> \o j \o <<"\n">> \o Fence,
      Note \o <<" ">> \o j,
      j \o <<" ">> \o Note,
      Brace \o <<" ">> \o j }

NotJson ==
    { <<>>, <<" ">>,
      <<"n", "o", "t", " ", "j", "s", "o", "n", " ", "a", "t", " ", "a",
        "l", "l">>,
      <<"[">>, <<"]", "[">>, <<"{">>,
      <<"[", "{", "\"", "w", "\"", ":">>,
      <<"{">> \o QuotedItems \o <<":", "[", "1", "]", ",">> \o QuotedItems
          \o <<":", "5", ",", "\"", "b", "\"", ":", "[", "2", "]", "}">>,
      <<"[", "1", ",", "]">> }

\* A response text: a string, or no string at all (a content of null, an
\* absent field).
IsResponseText(x) ==
    \/ x \in {Null, Undef}
    \/ \E v \in JsonVals : \E w \in Wrappings(Json(v)) : x = Str(w)
    \/ \E w \in NotJson : x = Str(w)

ExtractArray ==
    /\ arrayOut = Pending
    /\ arrayOut' = extractJsonArray(rawText)
    /\ UNCHANGED <<rawText, objectOut, sanVars, envVars, taskVars, chatVars>>

ExtractObject ==
    /\ objectOut = Pending
    /\ objectOut' = extractJsonObject(rawText)
    /\ UNCHANGED <<rawText, arrayOut, sanVars, envVars, taskVars, chatVars>>

(***************************************************************************)
(* The credential resolver                                                 *)
(***************************************************************************)
MissingCredential ==
    [t |-> "error", name |-> "Error",
     message |-> "DeepSeek API Key is missing."]
HttpError(status) ==
    [t |-> "error", name |-> "Error", message |-> "DeepSeek API error: ",
     status |-> status]
\* What fetch or the managed-API client rejects with.
NetworkError == [t |-> "error", name |-> "TypeError", message |-> "fetch"]
ApiError == [t |-> "error", name |-> "ApiError"]

\* A resolver that throws for either provider when it found no key.
getApiKeyStrict(prov) ==
    LET key == IF prov = "deepseek"
               THEN Or(window.DEEPSEEK_API_KEY, processEnv.DEEPSEEK_API_KEY)
               ELSE Or(window.API_KEY, processEnv.API_KEY)
    IN  IF ~Truthy(key) THEN Throw(MissingCredential) ELSE Ret(key)

\* A resolver that hands on whatever it found, for either provider.
getApiKeyLenient(prov) ==
    IF prov = "deepseek"
    THEN Ret(Or(window.DEEPSEEK_API_KEY, processEnv.DEEPSEEK_API_KEY))
    ELSE Ret(Or(window.API_KEY, processEnv.API_KEY))

getApiKey(prov) ==
    IF prov = "deepseek"
    THEN LET key == Or(window.DEEPSEEK_API_KEY, processEnv.DEEPSEEK_API_KEY)
         IN  IF ~Truthy(key) THEN Throw(MissingCredential) ELSE Ret(key)
    ELSE Ret(Or(window.API_KEY, processEnv.API_KEY))

WindowKey == Str(<<"w">>)
EnvKey == Str(<<"e">>)

(***************************************************************************)
(* The task functions                                                      *)
(***************************************************************************)
Ops ==
    {"generateVocabularyByTopic", "generateVocabularyFromList",
     "analyzeClassicalChinese", "analyzeWriting"}
VocabularyOps == {"generateVocabularyByTopic", "generateVocabularyFromList"}
Providers == {"gemini", "deepseek"}

\* A successful status is one of 200..299 (response.ok).
StatusCodes == {200, 401, 500}
Ok(status) == status >= 200 /\ status <= 299

\* obj[key] = val on an object or array.
Set(o, key, val) ==
    IF \E i \in 1..Len(o.k) : o.k[i] = key
    THEN [o EXCEPT !.v = [i \in 1..Len(o.v) |->
                              IF o.k[i] = key THEN val ELSE o.v[i]]]
    ELSE [o EXCEPT !.k = Append(o.k, key), !.v = Append(o.v, val)]

\* What a pipeline did: its completion (c) and the functions it ran.
Did(c, ran) == [c |-> c, ran |-> ran]

\* return sanitizeVocabularyItems(a), a being what extractJsonArray gave.
SanitizeParsed(a) ==
    IF a.thrown THEN Did(a, <<"extractJsonArray">>)
    ELSE Did(sanitizeVocabularyItems(a.val),
             <<"extractJsonArray", "sanitizeVocabularyItems">>)

\* return extractJsonArray(text), without the sanitizer.
VocabularyPipelineUnsanitized(txt) ==
    Did(extractJsonArray(txt), <<"extractJsonArray">>)

\* sanitizeVocabularyItems(extractJsonArray(text))
VocabularyPipeline(txt) == SanitizeParsed(extractJsonArray(txt))

\* result[key] = san; return result
Assign(result, key, san) ==
    Did(IF san.thrown THEN san ELSE Ret(Set(result, key, san.val)),
        <<"extractJsonObject", "sanitizeVocabularyItems">>)

\* if (Array.isArray(result[key]))
\*     result[key] = sanitizeVocabularyItems(result[key]);
\* return result;
SanitizeField(result, key) ==
    IF IsArray(Get(result, key))
    THEN Assign(result, key, sanitizeVocabularyItems(Get(result, key)))
    ELSE Did(Ret(result), <<"extractJsonObject">>)

\* if (!result.vocabulary) result.vocabulary = []; ...  Reading a property
\* of null throws; so does, in the strict mode of a module, setting one on
\* a number, a string or a boolean.
DefaultVocabulary(result) ==
    IF result.t \in {"null", "undefined"}
    THEN Did(Throw(TypeError), <<"extractJsonObject">>)
    ELSE IF Truthy(Get(result, kVocabulary))
    THEN SanitizeField(result, kVocabulary)
    ELSE IF result.t \notin {"object", "array"}
    THEN Did(Throw(TypeError), <<"extractJsonObject">>)
    ELSE SanitizeField(Set(result, kVocabulary, Arr(<<>>)), kVocabulary)

\* The deepseek branch of analyzeClassicalChinese.
ClassicalDeepseekPipeline(txt) == DefaultVocabulary(extractJsonObject(txt).val)

\* if (result[key] && Array.isArray(result[key])) ...; return result;
SanitizeIfArray(result, key) ==
    IF result.t \in {"null", "undefined"}
    THEN Did(Throw(TypeError), <<"extractJsonObject">>)
    ELSE SanitizeField(result, key)

\* The gemini branch of analyzeClassicalChinese (key vocabulary) and both
\* branches of analyzeWriting (key keyVocabulary).
AnalysisPipeline(txt, key) == SanitizeIfArray(extractJsonObject(txt).val, key)

EmptyArrayText == Str(<<"[", "]">>)
EmptyObjectText == Str(<<"{", "}">>)

\* What a task function does with the text its backend call returned; the
\* gemini branches read response.text || "[]" or response.text || "{}".
Pipeline(op, prov, txt) ==
    CASE op \in VocabularyOps ->
             VocabularyPipeline(IF prov = "gemini" THEN Or(txt, EmptyArrayText)
                                ELSE txt)
      [] op = "analyzeClassicalChinese" /\ prov = "deepseek" ->
             ClassicalDeepseekPipeline(txt)
      [] OTHER ->
             AnalysisPipeline(IF prov = "gemini" THEN Or(txt, EmptyObjectText)
                              ELSE txt,
                              IF op = "analyzeWriting" THEN kKeyVocabulary
                              ELSE kVocabulary)

\* The invocation returns or throws what the pipeline did.
Finish(did) ==
    /\ outcome' = did.c
    /\ log' = log \o did.ran
    /\ pc' = "done"

\* The content of a successful response: the JSON texts of ParseSpec,
\* bare or in a fence or behind prose, texts that are no JSON, null and
\* an absent field.
Contents ==
    {Null, Undef}
    \cup {Str(Json(v)) : v \in JsonVals}
    \cup {Str(FenceJson \o <<"\n">> \o Json(v) \o <<"\n">> \o Fence) :
              v \in {Arr(<<WordX>>), TranslationT}}
    \cup {Str(Note \o <<" ">> \o Json(v)) : v \in {Arr(<<WordX>>), TranslationT}}
    \cup {Str(w) : w \in NotJson}

IdleTask == [op |-> "none", provider |-> "none"]
NoRequest == [to |-> "none"]
\* A request that has not been answered, and the answer to one.
NoResponse == [answered |-> FALSE]
Response(status) == [status |-> status]
\* The request, with the content (choices[0].message.content, or the text
\* of the generateContent response) its backend answered with.
Answered(req, content) ==
    [to |-> req.to, key |-> req.key, response |-> req.response,
     content |-> content]
\* No chat session has been created.
ChatQuiet == \A s \in DOMAIN provider : provider[s].kind = "none"

\* A task function is called and runs to its first await: callDeepSeek
\* resolves the key and issues the request, the gemini branch builds its
\* client and calls generateContent.  (A run of the model puts the module
\* to one use: it invokes a task function, or it creates and uses chat
\* sessions.)
Invoke(op, prov) ==
    /\ pc = "idle" /\ ChatQuiet
    /\ task' = [op |-> op, provider |-> prov]
    /\ LET key == getApiKey(prov)
       IN  IF key.thrown
           THEN /\ pc' = "done"
                /\ outcome' = key
                /\ log' = <<"getApiKey">>
                /\ request' = NoRequest
           ELSE /\ pc' = IF prov = "deepseek" THEN "fetch" ELSE "generate"
                /\ outcome' = Pending
                /\ log' = <<"getApiKey",
                            IF prov = "deepseek" THEN "fetch"
                            ELSE "generateContent">>
                /\ request' = [to |-> prov, key |-> key.val,
                                response |-> NoResponse]
    /\ UNCHANGED <<sanVars, parseVars, envVars, chatVars>>

\* fetch rejects: the request never got an answer.
FetchFail ==
    /\ pc = "fetch"
    /\ pc' = "done"
    /\ outcome' = Throw(NetworkError)
    /\ UNCHANGED <<task, request, log, sanVars, parseVars, envVars, chatVars>>

\* A fetch step that reads the body whatever the status.
FetchRespondAnyStatus(status) ==
    /\ pc = "fetch"
    /\ request' = [request EXCEPT !.response = Response(status)]
    /\ pc' = "json" /\ outcome' = outcome
    /\ UNCHANGED <<task, log, sanVars, parseVars, envVars, chatVars>>

\* fetch resolves: if (!response.ok) throw, else await response.json().
FetchRespond(status) ==
    /\ pc = "fetch"
    /\ request' = [request EXCEPT !.response = Response(status)]
    /\ IF Ok(status)
       THEN pc' = "json" /\ outcome' = outcome
       ELSE pc' = "done" /\ outcome' = Throw(HttpError(status))
    /\ UNCHANGED <<task, log, sanVars, parseVars, envVars, chatVars>>

\* response.json() resolves with a body whose choices[0].message.content
\* is content; the task function parses and sanitizes it and returns.
JsonResolve(content) ==
    /\ pc = "json"
    /\ request' = Answered(request, content)
    /\ Finish(Pipeline(task.op, task.provider, content))
    /\ UNCHANGED <<task, sanVars, parseVars, envVars, chatVars>>

\* response.json() rejects, or the body has no choices[0].message to read
\* the content from.
JsonFail ==
    /\ pc = "json"
    /\ pc' = "done"
    /\ \E e \in {SyntaxError, TypeError} : outcome' = Throw(e)
    /\ UNCHANGED <<task, request, log, sanVars, parseVars, envVars, chatVars>>

\* generateContent rejects (the backend refused the key, the request failed).
GenerateFail ==
    /\ pc = "generate"
    /\ pc' = "done"
    /\ outcome' = Throw(ApiError)
    /\ UNCHANGED <<task, request, log, sanVars, parseVars, envVars, chatVars>>

\* generateContent resolves with a response whose text is txt.
GenerateResolve(txt) ==
    /\ pc = "generate"
    /\ request' = Answered(request, txt)
    /\ Finish(Pipeline(task.op, task.provider, txt))
    /\ UNCHANGED <<task, sanVars, parseVars, envVars, chatVars>>

(***************************************************************************)
(* The chat session                                                        *)
(***************************************************************************)
MaxSessions == 2
MaxCalls == 2
Sessions == 1..MaxSessions

InstructionSuffix ==
    <<" ", "u8ACB", "u4F7F", "u7528", "u6A19", "u6E96", "u66F8", "u9762",
      "u8A9E", " ", "(", "S", "t", "a", "n", "d", "a", "r", "d", " ", "W",
      "r", "i", "t", "t", "e", "n", " ", "C", "h", "i", "n", "e", "s", "e",
      ")", " ", "u9032", "u884C", "u4E3B", "u8981", "u56DE", "u7B54",
      "u3002", "u82E5", "u6D89", "u53CA", "u53E3", "u8A9E", "u6559", "u5B78",
      "uFF0C", "u53EF", "u9069", "u91CF", "u4F7F", "u7528", "u53E3", "u8A9E",
      "u3002">>

NoSession == [kind |-> "none"]
Entry(role, content) == [role |-> role, content |-> content]

\* The inputs of the model: session s is created with system instruction
\* "s<s>", the i-th sendMessage sends "m<i>", and the backend answers it
\* with "r<i>".
SystemInstructionOf(s) == Str(<<"s">> \o DigitsOf(s))
MessageOf(i) == Str(<<"m">> \o DigitsOf(i))
ReplyOf(i) == Str(<<"r">> \o DigitsOf(i))

\* The sendMessage calls on session s that have not settled.
InFlight(s) == {i \in DOMAIN calls : calls[i].session = s /\ calls[i].pc # "done"}

\* createChatSession(provider, systemInstruction): the deepseek session
\* closes over an empty history, the gemini session over a chat of a client
\* built with whatever key the resolver gave.
CreateSession(s, prov) ==
    /\ pc = "idle"
    /\ provider[s] = NoSession
    /\ \A r \in 1..(s - 1) : provider[r] # NoSession
    /\ provider' =
           [provider EXCEPT ![s] =
               [kind |-> prov,
                instruction |-> Str(SystemInstructionOf(s).s \o InstructionSuffix),
                apiKey |-> IF prov = "gemini" THEN getApiKey("gemini").val
                           ELSE Undef]]
    /\ history' = [history EXCEPT ![s] = <<>>]
    /\ UNCHANGED <<calls, sanVars, parseVars, envVars, taskVars>>

\* A sendMessage with a single-flight guard: a call issued while another
\* is in flight on the session is rejected.
Busy == [t |-> "error", name |-> "Error", message |-> "busy"]
SendMessageSingleFlight(s) ==
    /\ provider[s] # NoSession
    /\ Len(calls) < MaxCalls
    /\ LET i == Len(calls) + 1
           msg == MessageOf(i)
           pushed == Append(history[s], Entry("user", msg))
           key == getApiKey("deepseek")
           call == [session |-> s, msg |-> msg, overlaps |-> InFlight(s) # {},
                    pending |-> InFlight(s)]
       IN  IF provider[s].kind = "deepseek"
           THEN /\ history' = [history EXCEPT ![s] = pushed]
                /\ calls' = Append(calls,
                     IF key.thrown \/ InFlight(s) # {}
                     THEN call @@ [pc |-> "done", request |-> NoRequest,
                                   log |-> <<"getApiKey">>,
                                   outcome |-> IF key.thrown THEN key
                                               ELSE Throw(Busy)]
                     ELSE call @@
                          [pc |-> "fetch",
                           request |->
                               [to |-> "deepseek", key |-> key.val,
                                messages |->
                                    <<Entry("system", provider[s].instruction)>>
                                        \o pushed,
                                response |-> NoResponse],
                           log |-> <<"getApiKey", "fetch">>,
                           outcome |-> Pending])
           ELSE /\ history' = history
                /\ calls' = Append(calls, call @@
                     [pc |-> "send",
                      request |-> [to |-> "gemini", key |-> provider[s].apiKey,
                                   message |-> msg],
                      log |-> <<"sendMessage">>,
                      outcome |-> Pending])
    /\ UNCHANGED <<provider, sanVars, parseVars, envVars, taskVars>>

\* A sendMessage that posts the system instruction and the new message
\* only.
SendMessageNoReplay(s) ==
    /\ provider[s] # NoSession
    /\ Len(calls) < MaxCalls
    /\ LET i == Len(calls) + 1
           msg == MessageOf(i)
           pushed == Append(history[s], Entry("user", msg))
           key == getApiKey("deepseek")
           call == [session |-> s, msg |-> msg, overlaps |-> InFlight(s) # {},
                    pending |-> InFlight(s)]
       IN  IF provider[s].kind = "deepseek"
           THEN /\ history' = [history EXCEPT ![s] = pushed]
                /\ calls' = Append(calls,
                     IF key.thrown
                     THEN call @@ [pc |-> "done", request |-> NoRequest,
                                   log |-> <<"getApiKey">>, outcome |-> key]
                     ELSE call @@
                          [pc |-> "fetch",
                           request |->
                               [to |-> "deepseek", key |-> key.val,
                                messages |->
                                    <<Entry("system", provider[s].instruction),
                                      Entry("user", msg)>>,
                                response |-> NoResponse],
                           log |-> <<"getApiKey", "fetch">>,
                           outcome |-> Pending])
           ELSE /\ history' = history
                /\ calls' = Append(calls, call @@
                     [pc |-> "send",
                      request |-> [to |-> "gemini", key |-> provider[s].apiKey,
                                   message |-> msg],
                      log |-> <<"sendMessage">>,
                      outcome |-> Pending])
    /\ UNCHANGED <<provider, sanVars, parseVars, envVars, taskVars>>

\* sendMessage(msg) on a session, up to its first await.  The deepseek
\* session pushes the user entry, resolves the key and posts the system
\* instruction followed by the history; the gemini session hands the message
\* to its chat.
SendMessage(s) ==
    /\ provider[s] # NoSession
    /\ Len(calls) < MaxCalls
    /\ LET i == Len(calls) + 1
           msg == MessageOf(i)
           pushed == Append(history[s], Entry("user", msg))
           key == getApiKey("deepseek")
           call == [session |-> s, msg |-> msg, overlaps |-> InFlight(s) # {},
                    pending |-> InFlight(s)]
       IN  IF provider[s].kind = "deepseek"
           THEN /\ history' = [history EXCEPT ![s] = pushed]
                /\ calls' = Append(calls,
                     IF key.thrown
                     THEN call @@ [pc |-> "done", request |-> NoRequest,
                                   log |-> <<"getApiKey">>, outcome |-> key]
                     ELSE call @@
                          [pc |-> "fetch",
                           request |->
                               [to |-> "deepseek", key |-> key.val,
                                messages |->
                                    <<Entry("system", provider[s].instruction)>>
                                        \o pushed,
                                response |-> NoResponse],
                           log |-> <<"getApiKey", "fetch">>,
                           outcome |-> Pending])
           ELSE /\ history' = history
                /\ calls' = Append(calls, call @@
                     [pc |-> "send",
                      request |-> [to |-> "gemini", key |-> provider[s].apiKey,
                                   message |-> msg],
                      log |-> <<"sendMessage">>,
                      outcome |-> Pending])
    /\ UNCHANGED <<provider, sanVars, parseVars, envVars, taskVars>>

Settle(i, c) == [calls EXCEPT ![i].pc = "done", ![i].outcome = c]

\* The fetch of call i rejects.
ChatFetchFail(i) ==
    /\ i \in DOMAIN calls /\ calls[i].pc = "fetch"
    /\ calls' = Settle(i, Throw(NetworkError))
    /\ UNCHANGED <<provider, history, sanVars, parseVars, envVars, taskVars>>

\* A fetch step that takes the user entry back when the status is no
\* success.
ChatFetchRespondRollback(i, status) ==
    /\ i \in DOMAIN calls /\ calls[i].pc = "fetch"
    /\ calls' = IF Ok(status)
                THEN [calls EXCEPT ![i].pc = "json",
                                   ![i].request.response = Response(status)]
                ELSE [Settle(i, Throw(HttpError(status)))
                          EXCEPT ![i].request.response = Response(status)]
    /\ history' = IF Ok(status) THEN history
                  ELSE [history EXCEPT ![calls[i].session] =
                            SubSeq(@, 1, Len(@) - 1)]
    /\ UNCHANGED <<provider, sanVars, parseVars, envVars, taskVars>>

\* The fetch of call i resolves: if (!response.ok) throw, else await
\* response.json().
ChatFetchRespond(i, status) ==
    /\ i \in DOMAIN calls /\ calls[i].pc = "fetch"
    /\ calls' = IF Ok(status)
                THEN [calls EXCEPT ![i].pc = "json",
                                   ![i].request.response = Response(status)]
                ELSE [Settle(i, Throw(HttpError(status)))
                          EXCEPT ![i].request.response = Response(status)]
    /\ UNCHANGED <<provider, history, sanVars, parseVars, envVars, taskVars>>

\* A step that pushes the assistant entry onto the history of the first
\* session, whichever session the call was made on.
ChatJsonResolveShared(i) ==
    /\ i \in DOMAIN calls /\ calls[i].pc = "json"
    /\ history' = [history EXCEPT ![1] =
                       Append(@, Entry("assistant", ReplyOf(i)))]
    /\ calls' = Settle(i, Ret(ReplyOf(i)))
    /\ UNCHANGED <<provider, sanVars, parseVars, envVars, taskVars>>

\* A step that puts the assistant entry in front of the history.
ChatJsonResolveUnshift(i) ==
    /\ i \in DOMAIN calls /\ calls[i].pc = "json"
    /\ history' = [history EXCEPT ![calls[i].session] =
                       <<Entry("assistant", ReplyOf(i))>> \o @]
    /\ calls' = Settle(i, Ret(ReplyOf(i)))
    /\ UNCHANGED <<provider, sanVars, parseVars, envVars, taskVars>>

\* response.json() of call i resolves: the assistant entry is pushed and
\* the content returned.
ChatJsonResolve(i) ==
    /\ i \in DOMAIN calls /\ calls[i].pc = "json"
    /\ history' = [history EXCEPT ![calls[i].session] =
                       Append(@, Entry("assistant", ReplyOf(i)))]
    /\ calls' = Settle(i, Ret(ReplyOf(i)))
    /\ UNCHANGED <<provider, sanVars, parseVars, envVars, taskVars>>

\* response.json() of call i rejects, or the body has no
\* choices[0].message.
ChatJsonFail(i) ==
    /\ i \in DOMAIN calls /\ calls[i].pc = "json"
    /\ calls' = Settle(i, Throw(TypeError))
    /\ UNCHANGED <<provider, history, sanVars, parseVars, envVars, taskVars>>

\* chat.sendMessage of call i resolves with a result whose text is txt:
\* return result.text || "".
ChatSendResolve(i, txt) ==
    /\ i \in DOMAIN calls /\ calls[i].pc = "send"
    /\ calls' = Settle(i, Ret(Or(txt, Empty)))
    /\ UNCHANGED <<provider, history, sanVars, parseVars, envVars, taskVars>>

\* chat.sendMessage of call i rejects.
ChatSendFail(i) ==
    /\ i \in DOMAIN calls /\ calls[i].pc = "send"
    /\ calls' = Settle(i, Throw(ApiError))
    /\ UNCHANGED <<provider, history, sanVars, parseVars, envVars, taskVars>>

(***************************************************************************)
(* Specifications                                                          *)
(***************************************************************************)
\* The sanitizer applied to every array of raw items.
SanInit ==
    /\ IsItemArray(items) /\ sanitized = Pending /\ resanitized = Pending
    /\ rawText = Undef /\ arrayOut = Pending /\ objectOut = Pending
    /\ window = [DEEPSEEK_API_KEY |-> Undef, API_KEY |-> Undef]
    /\ processEnv = [DEEPSEEK_API_KEY |-> Undef, API_KEY |-> Undef]
    /\ task = IdleTask /\ pc = "idle" /\ request = NoRequest
    /\ log = <<>> /\ outcome = Pending
    /\ provider = [s \in Sessions |-> NoSession]
    /\ history = [s \in Sessions |-> <<>>]
    /\ calls = <<>>
SanNext == Sanitize \/ SanitizeAgain
SanSpec == SanInit /\ [][SanNext]_vars

\* The two parsers applied to every response text.
ParseInit ==
    /\ IsResponseText(rawText) /\ arrayOut = Pending /\ objectOut = Pending
    /\ items = Arr(<<>>) /\ sanitized = Pending /\ resanitized = Pending
    /\ window = [DEEPSEEK_API_KEY |-> Undef, API_KEY |-> Undef]
    /\ processEnv = [DEEPSEEK_API_KEY |-> Undef, API_KEY |-> Undef]
    /\ task = IdleTask /\ pc = "idle" /\ request = NoRequest
    /\ log = <<>> /\ outcome = Pending
    /\ provider = [s \in Sessions |-> NoSession]
    /\ history = [s \in Sessions |-> <<>>]
    /\ calls = <<>>
ParseNext == ExtractArray \/ ExtractObject
ParseSpec == ParseInit /\ [][ParseNext]_vars

\* How a key can be configured, as <<value in window, value in process.env>>:
\* absent, empty or set in window, absent or set in process.env.
KeySources ==
    {<<w, e>> : w \in {Undef, Empty, WindowKey}, e \in {Undef, EnvKey}}

\* The task functions and the chat sessions start idle, under every
\* configuration of the key sources.  The two keys are configured alike:
\* an operation reads only the key of its own provider.
Init ==
    /\ items = Arr(<<>>) /\ sanitized = Pending /\ resanitized = Pending
    /\ rawText = Undef /\ arrayOut = Pending /\ objectOut = Pending
    /\ \E c \in KeySources :
           /\ window = [DEEPSEEK_API_KEY |-> c[1], API_KEY |-> c[1]]
           /\ processEnv = [DEEPSEEK_API_KEY |-> c[2], API_KEY |-> c[2]]
    /\ task = IdleTask /\ pc = "idle" /\ request = NoRequest
    /\ log = <<>> /\ outcome = Pending
    /\ provider = [s \in Sessions |-> NoSession]
    /\ history = [s \in Sessions |-> <<>>]
    /\ calls = <<>>

Next ==
    \/ \E op \in Ops, prov \in Providers : Invoke(op, prov)
    \/ FetchFail
    \/ \E status \in StatusCodes : FetchRespond(status)
    \/ \E content \in Contents : JsonResolve(content)
    \/ JsonFail
    \/ GenerateFail
    \/ \E txt \in Contents : GenerateResolve(txt)
    \/ \E s \in Sessions, prov \in Providers : CreateSession(s, prov)
    \/ \E s \in Sessions : SendMessage(s)
    \/ \E i \in 1..MaxCalls : ChatFetchFail(i)
    \/ \E i \in 1..MaxCalls, status \in StatusCodes : ChatFetchRespond(i, status)
    \/ \E i \in 1..MaxCalls : ChatJsonResolve(i)
    \/ \E i \in 1..MaxCalls : ChatJsonFail(i)
    \/ \E i \in 1..MaxCalls : \E txt \in {Undef, ReplyOf(i)} : ChatSendResolve(i, txt)
    \/ \E i \in 1..MaxCalls : ChatSendFail(i)

Spec == Init /\ [][Next]_vars


(***************************************************************************)
(* Properties of the sanitizer (under SanSpec)                             *)
(***************************************************************************)
\* The call of sanitizeVocabularyItems has been made, on an array whose
\* elements are all mappings.
SanitizedMappings ==
    /\ sanitized # Pending
    /\ \A i \in 1..Len(items.a) : items.a[i].t = "object"

\* Neither absent, nor null, nor the empty string.
NonEmpty(v) == v \notin {Undef, Null, Empty}

\* C1: for every sequence of raw items that are mappings, whatever their
\* keys and the types of their values, sanitizeVocabularyItems does not
\* fail, and every output item has a non-empty word, definition,
\* exampleSentence and mnemonic and tags that is a sequence.
C1_SanitizerTotal ==
    SanitizedMappings =>
        /\ ~sanitized.thrown
        /\ IsArray(sanitized.val)
        /\ Len(sanitized.val.a) = Len(items.a)
        /\ \A i \in 1..Len(sanitized.val.a) :
               LET out == sanitized.val.a[i]
               IN  /\ NonEmpty(Get(out, kWord))
                   /\ NonEmpty(Get(out, kDefinition))
                   /\ NonEmpty(Get(out, kExampleSentence))
                   /\ NonEmpty(Get(out, kMnemonic))
                   /\ IsArray(Get(out, kTags))

\* A value a fallback chain passes over: JavaScript's || takes the next
\* operand after undefined, null, "", 0 and false.
Passed(v) == ~Truthy(v)

\* C10: the output word is the value of the first key, in the order word,
\* term, character, zi, text, that is present and non-empty in the raw
\* item.
C10_WordFirstMatchWins ==
    (SanitizedMappings /\ ~sanitized.thrown) =>
        \A i \in 1..Len(items.a) :
            \A j \in 1..Len(WordChain) :
                (/\ ~Passed(Get(items.a[i], WordChain[j]))
                 /\ \A h \in 1..(j - 1) : Passed(Get(items.a[i], WordChain[h])))
                => Get(sanitized.val.a[i], kWord) = Get(items.a[i], WordChain[j])

\* An item with only term = X came out with word = X, and an item with
\* word = X and term = Y came out with word = X.
C10_Witness ==
    /\ sanitized # Pending /\ ~sanitized.thrown
    /\ Len(items.a) = MaxItems
    /\ items.a[1] = Obj(<<kTerm>>, <<X>>)
    /\ Get(sanitized.val.a[1], kWord) = X
    /\ items.a[MaxItems] = Obj(<<kWord, kTerm>>, <<X, Y>>)
    /\ Get(sanitized.val.a[MaxItems], kWord) = X

\* Absent, or a string that is empty or holds white space only.
AbsentOrBlank(v) == v = Undef \/ (v.t = "string" /\ Trim(v.s) = <<>>)

AllAbsentOrBlank(item, chain) ==
    \A j \in DOMAIN chain : AbsentOrBlank(Get(item, chain[j]))

\* C11: for each of word, definition, exampleSentence and mnemonic, when
\* the canonical key and every alternate key of the field's chain is absent
\* or blank in the raw item, the output field is the field's placeholder; a
\* blank alternate value is never returned.
C11_PlaceholderOnBlank ==
    (SanitizedMappings /\ ~sanitized.thrown) =>
        \A i \in 1..Len(items.a) :
            /\ AllAbsentOrBlank(items.a[i], WordChain)
               => Get(sanitized.val.a[i], kWord) = WordPlaceholder
            /\ AllAbsentOrBlank(items.a[i], DefinitionChain)
               => Get(sanitized.val.a[i], kDefinition) = DefinitionPlaceholder
            /\ AllAbsentOrBlank(items.a[i], ExampleChain)
               => Get(sanitized.val.a[i], kExampleSentence) = ExamplePlaceholder
            /\ AllAbsentOrBlank(items.a[i], <<kMnemonic>>)
               => Get(sanitized.val.a[i], kMnemonic) = MnemonicPlaceholder

\* The value a chain of || resolves to: that of the first key the chain does
\* not pass over, absent when it passes over all of them.
Resolved(item, chain) ==
    LET kept == {j \in DOMAIN chain : ~Passed(Get(item, chain[j]))}
    IN  IF kept = {} THEN Undef
        ELSE Get(item, chain[CHOOSE j \in kept : \A h \in kept : j <= h])

NonBlankString(v) == v.t = "string" /\ Trim(v.s) # <<>>

\* C12: when the resolved example value is a sequence, the output
\* exampleSentence is its first element if that is a non-blank string, and
\* the placeholder when the sequence is empty or its first element is blank
\* or no string.
C12_ExampleFromSequence ==
    (SanitizedMappings /\ ~sanitized.thrown) =>
        \A i \in 1..Len(items.a) :
            IsArray(Resolved(items.a[i], ExampleChain)) =>
                Get(sanitized.val.a[i], kExampleSentence) =
                    IF /\ Len(Resolved(items.a[i], ExampleChain).a) > 0
                       /\ NonBlankString(Resolved(items.a[i], ExampleChain).a[1])
                    THEN Resolved(items.a[i], ExampleChain).a[1]
                    ELSE ExamplePlaceholder

\* One item had exampleSentence ["a","b"] and came out with "a"; the item
\* before it had no example and came out with the placeholder.
C12_Witness ==
    /\ sanitized # Pending /\ ~sanitized.thrown
    /\ Len(items.a) = MaxItems
    /\ items.a[MaxItems] =
           Obj(<<kExampleSentence>>, <<Arr(<<Str(<<"a">>), Str(<<"b">>)>>)>>)
    /\ Get(sanitized.val.a[MaxItems], kExampleSentence) = Str(<<"a">>)
    /\ Get(sanitized.val.a[1], kExampleSentence) = ExamplePlaceholder

\* C15: for every raw item, sanitizing what the sanitizer returned gives it
\* back unchanged, field for field.
C15_SanitizerIdempotent ==
    (SanitizedMappings /\ resanitized # Pending) => resanitized = sanitized

\* What a canonical key must hold to be well formed: a non-blank string,
\* a sequence under tags, any value under image.
WellFormed(key, v) ==
    IF key = kTags THEN IsArray(v)
    ELSE IF key = kImage THEN v # Undef
    ELSE NonBlankString(v)

\* C16: for every raw item and every canonical field, a well-formed value
\* under the canonical key comes out unchanged under that key, whatever
\* alternate keys the item also has.
C16_WellFormedFieldKept ==
    (SanitizedMappings /\ ~sanitized.thrown) =>
        \A i \in 1..Len(items.a) :
            \A j \in DOMAIN OutKeys :
                WellFormed(OutKeys[j], Get(items.a[i], OutKeys[j]))
                => Get(sanitized.val.a[i], OutKeys[j])
                   = Get(items.a[i], OutKeys[j])

\* An item with definition X and meaning Y came out with definition X,
\* after an item whose seven populated fields all came out as they were.
C16_Witness ==
    /\ sanitized # Pending /\ ~sanitized.thrown
    /\ Len(items.a) = MaxItems
    /\ items.a[1] = GoodItem
    /\ \A j \in DOMAIN GoodItem.k :
           Get(sanitized.val.a[1], GoodItem.k[j]) = GoodItem.v[j]
    /\ items.a[MaxItems] = Obj(<<kDefinition, kMeaning>>, <<X, Y>>)
    /\ Get(sanitized.val.a[MaxItems], kDefinition) = X

(***************************************************************************)
(* Properties of the parsers (under ParseSpec)                             *)
(***************************************************************************)
\* C2: for every raw response value (JSON of any shape, malformed text,
\* empty text, null or absent content) extractJsonArray does not throw and
\* returns a sequence.
C2_ArrayParserSafe ==
    arrayOut # Pending => (~arrayOut.thrown /\ IsArray(arrayOut.val))

\* C3: for every raw text (malformed text, the literal null, a scalar, an
\* array whose first element is no object) extractJsonObject does not
\* throw and returns an object.
C3_ObjectParserSafe ==
    objectOut # Pending => (~objectOut.thrown /\ objectOut.val.t = "object")

\* C13: when the response text is a JSON object, extractJsonArray returns
\* the value of the first key, in the order of the text, whose value is an
\* array, and the object wrapped in a one-element array when no key holds
\* an array; for every object, with one or several array-valued keys.
C13_ArrayFromObject ==
    \A v \in JsonVals :
        (/\ v.t = "object"
         /\ rawText = Str(Json(v))
         /\ arrayOut # Pending)
        => arrayOut = Ret(IF FirstArrayValue(v) # Undef
                          THEN FirstArrayValue(v)
                          ELSE Arr(<<v>>))

\* C14: when the response text is a JSON array, extractJsonObject returns
\* the first element of the array, and the empty object when the array is
\* empty, for arrays of one, two or more elements.
C14_ObjectFromArray ==
    \A v \in JsonVals :
        (/\ IsArray(v)
         /\ rawText = Str(Json(v))
         /\ objectOut # Pending)
        => objectOut = Ret(IF Len(v.a) = 0 THEN Obj(<<>>, <<>>) ELSE v.a[1])

\* An array whose elements are all records.
IsRecordArray(v) == IsArray(v) /\ \A i \in DOMAIN v.a : v.a[i].t = "object"

\* C22: for every JSON array A of records, a response text made of A in a
\* code fence, in prose, or in both parses to exactly A, also when the
\* prose around A holds brackets of its own.
C22_ArrayInFenceOrProse ==
    \A v \in JsonVals :
        IsRecordArray(v) =>
            \A w \in Wrappings(Json(v)) :
                (rawText = Str(w) /\ arrayOut # Pending) => arrayOut = Ret(v)

(***************************************************************************)
(* Properties of the task functions and the chat session (under Spec)      *)
(***************************************************************************)
\* The backend call of the invocation came back with a content, and the
\* task function went on to parse it.
ContentReturned ==
    \E i \in DOMAIN log : log[i] \in {"extractJsonArray", "extractJsonObject"}

\* C4: for each task function and both providers, when the backend call
\* succeeds, whatever the content, the task function returns a result and
\* does not throw.
C4_TasksAbsorbMalformedOutput ==
    (pc = "done" /\ ContentReturned) => ~outcome.thrown

\* The text a vocabulary task hands to extractJsonArray: the content of the
\* chat-completions response, response.text || "[]" on the managed path.
ParsedText ==
    IF task.provider = "gemini" THEN Or(request.content, EmptyArrayText)
    ELSE request.content

\* The backend said {"items":[{term: Y, definition: "", mnemonic: X}]}.
TermYContent == Str(Json(Obj(<<kItems>>, <<Arr(<<TermY>>)>>)))

\* The one item the claim's example must yield.
TermYItem ==
    Obj(OutKeys,
        <<Y, DefinitionPlaceholder, Empty, Empty, ExamplePlaceholder, X,
          Empty, Arr(<<>>), Undef>>)

\* C17: generateVocabularyByTopic and generateVocabularyFromList return
\* exactly sanitize(parseArray(content)): they fail as the parser or the
\* sanitizer fails, and otherwise return one sanitized item per element of
\* the parsed array, in its order; the content {"items":[{term, definition:
\* "", mnemonic: M}]} on the chat-completions path yields exactly one item
\* with word = the term, the definition placeholder, mnemonic = M, the
\* example placeholder and tags = [].
C17_VocabularyPipeline ==
    (pc = "done" /\ task.op \in VocabularyOps /\ ContentReturned) =>
        /\ IF extractJsonArray(ParsedText).thrown
           THEN outcome = extractJsonArray(ParsedText)
           ELSE outcome =
                    sanitizeVocabularyItems(extractJsonArray(ParsedText).val)
        /\ ~outcome.thrown =>
               /\ Len(outcome.val.a) = Len(extractJsonArray(ParsedText).val.a)
               /\ \A i \in 1..Len(outcome.val.a) :
                      Ret(outcome.val.a[i]) =
                          SanitizeItem(extractJsonArray(ParsedText).val.a[i])
        /\ (task.provider = "deepseek" /\ request.content = TermYContent)
           => outcome = Ret(Arr(<<TermYItem>>))

\* generateVocabularyByTopic on the chat-completions path got the content
\* of the example and returned its one item.
C17_Witness ==
    /\ pc = "done" /\ task = [op |-> "generateVocabularyByTopic",
                              provider |-> "deepseek"]
    /\ ContentReturned /\ request.content = TermYContent
    /\ outcome = Ret(Arr(<<TermYItem>>))

\* A sanitized item: a mapping with exactly the keys of a VocabularyItem.
IsSanitizedItem(x) == x.t = "object" /\ x.k = OutKeys

\* C9: for both providers and every response, the result that
\* analyzeClassicalChinese returns has a vocabulary that is a sequence of
\* sanitized items (the empty sequence when the model left it out).
C9_VocabularyIsSequence ==
    (pc = "done" /\ task.op = "analyzeClassicalChinese" /\ ~outcome.thrown) =>
        LET vocabulary == Get(outcome.val, kVocabulary)
        IN  /\ IsArray(vocabulary)
            /\ \A i \in 1..Len(vocabulary.a) : IsSanitizedItem(vocabulary.a[i])

\* No key for the chat-completions backend in either source.
NoDeepseekKey ==
    /\ ~Truthy(window.DEEPSEEK_API_KEY)
    /\ ~Truthy(processEnv.DEEPSEEK_API_KEY)

\* How often an event occurs in a log.
Count(l, e) == Cardinality({i \in DOMAIN l : l[i] = e})

\* C7: with no key configured in either source, every chat-completions
\* operation (a task function or a sendMessage with provider deepseek)
\* fails with the missing-credential error, and at no point of the
\* invocation is a request issued.
C7_NoRequestWithoutKey ==
    NoDeepseekKey =>
        /\ task.provider = "deepseek" =>
               /\ pc = "done"
               /\ outcome = Throw(MissingCredential)
               /\ request = NoRequest
               /\ Count(log, "fetch") = 0
        /\ \A i \in DOMAIN calls :
               provider[calls[i].session].kind = "deepseek" =>
                   /\ calls[i].pc = "done"
                   /\ calls[i].outcome = Throw(MissingCredential)
                   /\ calls[i].request = NoRequest
                   /\ Count(calls[i].log, "fetch") = 0

\* A task function with provider deepseek was invoked with no key
\* configured and has failed.
C7_Witness ==
    /\ NoDeepseekKey
    /\ task = [op |-> "analyzeWriting", provider |-> "deepseek"]
    /\ outcome = Throw(MissingCredential)

\* C8: when the status of the response is no success, the operation fails
\* with an error carrying that status, exactly one request was issued for
\* the invocation, and neither a parser nor the sanitizer has run.
C8_HttpErrorIsFinal ==
    /\ (request # NoRequest /\ request.response # NoResponse
        /\ ~Ok(request.response.status)) =>
           /\ pc = "done"
           /\ outcome = Throw(HttpError(request.response.status))
           /\ log = <<"getApiKey", "fetch">>
    /\ \A i \in DOMAIN calls :
           (calls[i].request # NoRequest /\ calls[i].request.to = "deepseek"
            /\ calls[i].request.response # NoResponse
            /\ ~Ok(calls[i].request.response.status)) =>
               /\ calls[i].pc = "done"
               /\ calls[i].outcome =
                      Throw(HttpError(calls[i].request.response.status))
               /\ calls[i].log = <<"getApiKey", "fetch">>

\* A task function was answered with status 500 and has failed with it.
C8_Witness ==
    /\ task = [op |-> "generateVocabularyByTopic", provider |-> "deepseek"]
    /\ request # NoRequest /\ request.response = Response(500)
    /\ outcome = Throw(HttpError(500))

\* The calls issued on session s, in order of issue.
CallsOn(s) ==
    SelectSeq([i \in 1..Len(calls) |-> i], LAMBDA i : calls[i].session = s)

\* Session s was used sequentially and with success: every call was issued
\* after the calls before it had settled, and every call has returned.
Sequential(s) ==
    \A i \in DOMAIN calls :
        calls[i].session = s =>
            /\ ~calls[i].overlaps
            /\ calls[i].pc = "done" /\ ~calls[i].outcome.thrown

\* C5: after n sequential, successful sendMessage calls on a
\* chat-completions session the history has exactly 2n entries, the i-th
\* pair being the i-th message sent and the reply returned for it.
C5_SequentialHistory ==
    \A s \in Sessions :
        (provider[s].kind = "deepseek" /\ Sequential(s)) =>
            LET on == CallsOn(s)
            IN  history[s] =
                    [k \in 1..(2 * Len(on)) |->
                        IF k % 2 = 1
                        THEN Entry("user", calls[on[(k + 1) \div 2]].msg)
                        ELSE Entry("assistant",
                                   calls[on[k \div 2]].outcome.val)]

\* As many sequential, successful calls as the model allows were made on
\* the first session.
C5_Witness ==
    /\ provider[1].kind = "deepseek" /\ Sequential(1)
    /\ Len(CallsOn(1)) = MaxCalls
    /\ Len(history[1]) = 2 * MaxCalls

IsPrefix(p, q) == Len(p) <= Len(q) /\ SubSeq(q, 1, Len(p)) = p

\* Call i fails in this step: it is issued and fails at once, or it was in
\* flight and settles with an error.
FailsNow(i) ==
    /\ calls'[i].pc = "done" /\ calls'[i].outcome.thrown
    /\ (i \in DOMAIN calls => calls[i].pc # "done")

\* C6: the history of a session is append-only, and a sendMessage on a
\* chat-completions session that fails leaves the history as it was before
\* the call with exactly the user entry appended: the step that issues a
\* call appends that entry and nothing else, whether the call fails at once
\* (no key) or goes on to its request, and the step in which a call in
\* flight fails appends nothing.
C6_FailedTurnKeepsUserMessage ==
    [][\A s \in Sessions :
           /\ IsPrefix(history[s], history'[s])
           /\ \A i \in DOMAIN calls' :
                  (calls'[i].session = s /\ provider[s].kind = "deepseek") =>
                      /\ i \notin DOMAIN calls =>
                             history'[s] =
                                 Append(history[s], Entry("user", calls'[i].msg))
                      /\ (i \in DOMAIN calls /\ FailsNow(i)) =>
                             history'[s] = history[s]
      ]_vars

\* A call on a chat-completions session failed on the status of its
\* response, after an earlier call had succeeded: the history is that
\* call's pair and the user entry of the failed call.
C6_Witness ==
    /\ Len(calls) >= 2
    /\ provider[1].kind = "deepseek"
    /\ calls[1].session = 1 /\ calls[2].session = 1
    /\ calls[1].pc = "done" /\ ~calls[1].outcome.thrown
    /\ ~calls[2].overlaps
    /\ calls[2].outcome = Throw(HttpError(401))
    /\ history[1] = <<Entry("user", calls[1].msg),
                      Entry("assistant", calls[1].outcome.val),
                      Entry("user", calls[2].msg)>>

\* An entry of session s: the user entry of a sendMessage made on s, or
\* the assistant entry for the reply to one.
EntryOf(e, s) ==
    \E i \in DOMAIN calls :
        /\ calls[i].session = s
        /\ e \in {Entry("user", calls[i].msg), Entry("assistant", ReplyOf(i))}

\* Where entry e stands in history h (0 when it is not there).
Position(h, e) ==
    IF \E p \in DOMAIN h : h[p] = e
    THEN CHOOSE p \in DOMAIN h : h[p] = e
    ELSE 0

\* C18: for any interleaving of sendMessage calls on two sessions, the
\* history of each session holds only the messages sent on that session and
\* the replies to its own requests, the messages in the order they were
\* sent and each reply after its message, and the request of a call carries
\* the system instruction of its own session followed by entries of its own
\* session only.
C18_SessionsDoNotInterfere ==
    /\ \A s \in Sessions :
           /\ \A p \in DOMAIN history[s] : EntryOf(history[s][p], s)
           /\ \A i \in DOMAIN calls, j \in DOMAIN calls :
                  (/\ i < j
                   /\ calls[i].session = s /\ calls[j].session = s
                   /\ Position(history[s], Entry("user", calls[j].msg)) > 0)
                  => /\ Position(history[s], Entry("user", calls[i].msg)) > 0
                     /\ Position(history[s], Entry("user", calls[i].msg))
                        < Position(history[s], Entry("user", calls[j].msg))
           /\ \A i \in DOMAIN calls :
                  (/\ calls[i].session = s
                   /\ Position(history[s], Entry("assistant", ReplyOf(i))) > 0)
                  => /\ Position(history[s], Entry("user", calls[i].msg)) > 0
                     /\ Position(history[s], Entry("user", calls[i].msg))
                        < Position(history[s], Entry("assistant", ReplyOf(i)))
    /\ \A i \in DOMAIN calls :
           (calls[i].request # NoRequest /\ calls[i].request.to = "deepseek")
           => /\ calls[i].request.messages[1] =
                     Entry("system", provider[calls[i].session].instruction)
              /\ \A p \in 2..Len(calls[i].request.messages) :
                     EntryOf(calls[i].request.messages[p], calls[i].session)

\* Two deepseek sessions: the call on the second was issued and answered
\* while the call on the first was still in flight, and each history holds
\* its own entries only.
C18_Witness ==
    /\ Len(calls) >= 2
    /\ provider[1].kind = "deepseek" /\ provider[2].kind = "deepseek"
    /\ calls[1].session = 1 /\ calls[1].pc = "json"
    /\ calls[2].session = 2 /\ calls[2].outcome = Ret(ReplyOf(2))
    /\ history[1] = <<Entry("user", MessageOf(1))>>
    /\ history[2] = <<Entry("user", MessageOf(2)),
                      Entry("assistant", ReplyOf(2))>>

\* C19: a sendMessage issued on a deepseek session while an earlier one has
\* not resolved is neither rejected nor queued: with a key configured its
\* request is issued in the same step, and the request carries the user
\* message of every call still in flight without the reply to it; so both
\* calls proceed on one history.
C19_OverlappingCallsProceed ==
    \A j \in DOMAIN calls :
        (/\ provider[calls[j].session].kind = "deepseek"
         /\ calls[j].pending # {}
         /\ ~NoDeepseekKey)
        => /\ calls[j].request # NoRequest
           /\ calls[j].log = <<"getApiKey", "fetch">>
           /\ calls[j].outcome \in
                  {Pending, Ret(ReplyOf(j)), Throw(NetworkError),
                   Throw(TypeError)}
                  \cup {Throw(HttpError(status)) : status \in StatusCodes}
           /\ \A i \in calls[j].pending :
                  /\ \E p \in DOMAIN calls[j].request.messages :
                         calls[j].request.messages[p] =
                             Entry("user", calls[i].msg)
                  /\ \A p \in DOMAIN calls[j].request.messages :
                         calls[j].request.messages[p] #
                             Entry("assistant", ReplyOf(i))

\* Two calls overlapped on one deepseek session and both returned: the
\* history is user, user, assistant, assistant, and the second request
\* carried the first user message without its reply.
C19_Witness ==
    /\ Len(calls) >= 2
    /\ provider[1].kind = "deepseek"
    /\ calls[1].session = 1 /\ calls[2].session = 1
    /\ calls[2].pending = {1}
    /\ calls[1].outcome = Ret(ReplyOf(1)) /\ calls[2].outcome = Ret(ReplyOf(2))
    /\ history[1] = <<Entry("user", MessageOf(1)), Entry("user", MessageOf(2)),
                      Entry("assistant", ReplyOf(1)),
                      Entry("assistant", ReplyOf(2))>>
    /\ calls[2].request.messages =
           <<Entry("system", provider[1].instruction),
             Entry("user", MessageOf(1)), Entry("user", MessageOf(2))>>

\* No key for the managed API in either source.
NoGeminiKey ==
    /\ ~Truthy(window.API_KEY)
    /\ ~Truthy(processEnv.API_KEY)

\* C20: with no key for the managed API in either source, resolving the
\* key for provider gemini does not fail; the empty or undefined key is
\* handed to the client, each of the four tasks goes on to generateContent
\* and a chat session is created and takes messages; the missing-credential
\* error comes from provider deepseek only.
C20_ManagedKeyAbsenceNoError ==
    /\ NoGeminiKey =>
           /\ task.provider = "gemini" =>
                  /\ request # NoRequest
                  /\ ~Truthy(request.key)
                  /\ Len(log) >= 2 /\ log[1] = "getApiKey"
                  /\ log[2] = "generateContent"
           /\ \A s \in Sessions :
                  provider[s].kind = "gemini" => ~Truthy(provider[s].apiKey)
           /\ \A i \in DOMAIN calls :
                  provider[calls[i].session].kind = "gemini" =>
                      /\ calls[i].request # NoRequest
                      /\ ~Truthy(calls[i].request.key)
    /\ outcome = Throw(MissingCredential) => task.provider = "deepseek"
    /\ \A i \in DOMAIN calls :
           calls[i].outcome = Throw(MissingCredential)
           => provider[calls[i].session].kind = "deepseek"

\* With no key at all, analyzeWriting with provider gemini got its answer
\* from generateContent.
C20_Witness ==
    /\ NoGeminiKey
    /\ task = [op |-> "analyzeWriting", provider |-> "gemini"]
    /\ pc = "done" /\ ~outcome.thrown
    /\ ~Truthy(request.key)
    /\ Count(log, "generateContent") = 1

\* The key the claimed lookup order gives: the value of process.env when it
\* is neither absent nor empty, the value of window otherwise.
EnvironmentFirst(w, e) == IF Truthy(e) THEN e ELSE w

\* C21: for both providers the resolver takes the process.env value first
\* and the window value second: the key an operation uses is that of
\* process.env whenever it is non-empty, that of window only when it is
\* not, and a deepseek operation fails with the missing-credential error
\* only when neither source holds a key.
C21_EnvironmentConsultedFirst ==
    /\ (task.provider = "deepseek" /\ request # NoRequest) =>
           request.key = EnvironmentFirst(window.DEEPSEEK_API_KEY,
                                          processEnv.DEEPSEEK_API_KEY)
    /\ (task.provider = "gemini" /\ request # NoRequest
        /\ Truthy(EnvironmentFirst(window.API_KEY, processEnv.API_KEY))) =>
           request.key = EnvironmentFirst(window.API_KEY, processEnv.API_KEY)
    /\ outcome = Throw(MissingCredential) => NoDeepseekKey
    /\ \A s \in Sessions :
           (provider[s].kind = "gemini"
            /\ Truthy(EnvironmentFirst(window.API_KEY, processEnv.API_KEY))) =>
               provider[s].apiKey =
                   EnvironmentFirst(window.API_KEY, processEnv.API_KEY)
    /\ \A i \in DOMAIN calls :
           /\ (provider[calls[i].session].kind = "deepseek"
               /\ calls[i].request # NoRequest) =>
                  calls[i].request.key =
                      EnvironmentFirst(window.DEEPSEEK_API_KEY,
                                       processEnv.DEEPSEEK_API_KEY)
           /\ calls[i].outcome = Throw(MissingCredential) => NoDeepseekKey

\* Call i was made on a deepseek session.
OnDeepseek(cs, i) == provider[cs[i].session].kind = "deepseek"

\* C23: with a key configured, every sendMessage on a deepseek session
\* issues exactly one request, in the step of the call; its message list is
\* the system instruction of the session followed by the whole history as
\* it stands once the user message is pushed, so it ends with that message
\* and holds the user messages that failed turns left behind; the request
\* of a call is never issued again or changed.
C23_FullHistoryReplay ==
    [][~NoDeepseekKey =>
          /\ \A i \in DOMAIN calls' :
                 OnDeepseek(calls', i) =>
                     /\ calls'[i].request # NoRequest
                     /\ Count(calls'[i].log, "fetch") = 1
          /\ \A i \in DOMAIN calls :
                 OnDeepseek(calls, i) =>
                     calls'[i].request.messages = calls[i].request.messages
          /\ (Len(calls') = Len(calls) + 1 /\ OnDeepseek(calls', Len(calls')))
             => /\ history'[calls'[Len(calls')].session] =
                       Append(history[calls'[Len(calls')].session],
                              Entry("user", calls'[Len(calls')].msg))
                /\ calls'[Len(calls')].request.messages =
                       <<Entry("system",
                               provider[calls'[Len(calls')].session].instruction)>>
                           \o history'[calls'[Len(calls')].session]
      ]_vars

\* The first turn failed and the second, sent after it, succeeded: its
\* request carried both user messages and the history is user, user,
\* assistant.
C23_Witness ==
    /\ Len(calls) >= 2
    /\ provider[1].kind = "deepseek"
    /\ calls[1].session = 1 /\ calls[1].outcome = Throw(HttpError(500))
    /\ calls[2].session = 1 /\ calls[2].pending = {}
    /\ calls[2].outcome = Ret(ReplyOf(2))
    /\ calls[2].request.messages =
           <<Entry("system", provider[1].instruction),
             Entry("user", MessageOf(1)), Entry("user", MessageOf(2))>>
    /\ history[1] = <<Entry("user", MessageOf(1)), Entry("user", MessageOf(2)),
                      Entry("assistant", ReplyOf(2))>>

=============================================================================
